---- MODULE Spec2Model ----
(***************************************************************************)
(* A model of the file-operations layer of the FileManager MCP server      *)
(* (src/models/fileModel.py) and of the listDirectory tool of its          *)
(* controller (src/controllers/file_controller.py).                        *)
(*                                                                         *)
(* The filesystem is the only state: a tree of entries under one root.     *)
(* Every FileManager method is a function from (filesystem, arguments)     *)
(* to (filesystem, outcome); the outcome is either the dictionary the      *)
(* method returns or the exception that leaves the method uncaught.        *)
(* A call is one atomic step (the server is synchronous); the outcome is   *)
(* held in `last` until the front-end hands it back to the client.         *)
(*                                                                         *)
(* FileManager takes no lock. SpecRace is the same writeFile run by two    *)
(* callers at once, each system call of the method a step of its own.      *)
(***************************************************************************)
EXTENDS Integers, Sequences, FiniteSets, TLC

VARIABLES fs, last, osFaults, callers, lastWriter

vars == <<fs, last, osFaults, callers, lastWriter>>

(***************************************************************************)
(* The universe of paths. A resolved path is the sequence of its           *)
(* components below the working directory; Root is the working directory.  *)
(***************************************************************************)
Names == {"a", "b"}

\* The names in the order Python's sorted() puts them.
NameOrder == <<"a", "b">>

\* A path component holding an embedded NUL byte.
Nul == "NUL"

Root == <<>>

Paths == {<<n>> : n \in Names} \cup {<<n, m>> : n \in Names, m \in Names}

AllPaths == {Root} \cup Paths

\* A path string no operating system accepts.
NulPath == <<Nul>>

\* The path strings a caller passes.
PathArgs == Paths \cup {NulPath}

\* The largest number of bytes a file grows to by appending.
MaxLen == 2

(***************************************************************************)
(* Text. A string is a sequence of characters, a file holds bytes.         *)
(***************************************************************************)
\* str.encode('utf-8') of one character; <<-1>> stands for UnicodeEncodeError,
\* raised for "SUR", a lone surrogate (a str Python holds and UTF-8 cannot encode).
EncodeChar(c) ==
  CASE c = "{"  -> <<123>>
    [] c = "}"  -> <<125>>
    [] c = "x"  -> <<120>>
    [] c = "X"  -> <<88>>
    [] c = "CR" -> <<13>>
    [] c = "LF" -> <<10>>
    [] OTHER    -> <<-1>>

Encodable(s) == \A i \in 1..Len(s) : EncodeChar(s[i]) # <<-1>>

RECURSIVE Encode(_)
Encode(s) == IF s = <<>> THEN <<>> ELSE EncodeChar(Head(s)) \o Encode(Tail(s))

\* One decoded byte; utf-8, latin-1 and cp1252 agree on ASCII.
DecodeByte(b) ==
  CASE b = 123 -> "{"
    [] b = 125 -> "}"
    [] b = 120 -> "x"
    [] b = 88  -> "X"
    [] b = 13  -> "CR"
    [] b = 10  -> "LF"
    [] OTHER   -> "?"

Decode(bytes) == [i \in 1..Len(bytes) |-> DecodeByte(bytes[i])]

\* Text mode with newline=None, reading: "\r\n" and "\r" both become "\n".
RECURSIVE UniversalNewlines(_)
UniversalNewlines(s) ==
  IF s = <<>> THEN <<>>
  ELSE IF Head(s) = "CR"
       THEN IF Len(s) >= 2 /\ s[2] = "LF"
            THEN <<"LF">> \o UniversalNewlines(Tail(Tail(s)))
            ELSE <<"LF">> \o UniversalNewlines(Tail(s))
       ELSE <<Head(s)>> \o UniversalNewlines(Tail(s))

\* Text mode with newline=None, writing: "\n" becomes os.linesep ("\n" on POSIX).
RECURSIVE WriteNewlines(_)
WriteNewlines(s) ==
  IF s = <<>> THEN <<>>
  ELSE (IF Head(s) = "LF" THEN <<"LF">> ELSE <<Head(s)>>) \o WriteNewlines(Tail(s))

\* str.lower()
LowerChar(c) == IF c = "X" THEN "x" ELSE c

Lower(s) == [i \in 1..Len(s) |-> LowerChar(s[i])]

\* needle in haystack
Contains(hay, needle) ==
  \E i \in 0..(Len(hay) - Len(needle)) :
    \A j \in 1..Len(needle) : hay[i + j] = needle[j]

(***************************************************************************)
(* The filesystem: every path of the universe is absent, a directory or a  *)
(* regular file with its bytes.                                            *)
(***************************************************************************)
Absent == [kind |-> "none", data |-> <<>>]

Dir == [kind |-> "dir", data |-> <<>>]

File(bytes) == [kind |-> "file", data |-> bytes]

EmptyFs == [p \in AllPaths |-> IF p = Root THEN Dir ELSE Absent]

Parent(p) == IF p = Root THEN Root ELSE SubSeq(p, 1, Len(p) - 1)

Basename(p) == p[Len(p)]

IsPrefix(p, q) == Len(p) <= Len(q) /\ SubSeq(q, 1, Len(p)) = p

InUniverse(p) == p \in AllPaths

Exists(f, p) == InUniverse(p) /\ f[p].kind # "none"

IsDir(f, p) == InUniverse(p) /\ f[p].kind = "dir"

IsFile(f, p) == InUniverse(p) /\ f[p].kind = "file"

Children(f, p) == {q \in Paths : Parent(q) = p /\ Exists(f, q)}

Descendants(f, p) == {q \in Paths : q # p /\ IsPrefix(p, q) /\ Exists(f, q)}

\* Every entry lies in a directory.
WellFormed(f) == \A p \in Paths : Exists(f, p) => IsDir(f, Parent(p))

(***************************************************************************)
(* Outcomes of a call: the dictionary returned, or the exception raised.   *)
(***************************************************************************)
Err(msg) == [success |-> FALSE, error |-> msg]

Raise(exc) == [raised |-> exc]

Raised(out) == "raised" \in DOMAIN out

Succeeded(out) == ~Raised(out) /\ out.success

Failed(out) == ~Raised(out) /\ ~out.success

\* What an operator hands back: the filesystem it leaves and its outcome.
Done(f, out) == [fs |-> f, out |-> out]

(***************************************************************************)
(* Operating-system failures a call can meet:                              *)
(*   "stat" - the stat() behind Path.exists() fails with EACCES;           *)
(*   "io"   - the first system call of the action itself fails (EACCES).   *)
(***************************************************************************)
Faults == {"none", "stat", "io"}

\* Path(p).resolve(): ValueError on an embedded NUL byte, else the path.
Resolvable(p) == \A i \in 1..Len(p) : p[i] # Nul

(***************************************************************************)
(* pathlib and shutil primitives.                                          *)
(***************************************************************************)
\* os.mkdir(q): "" when the directory is created, else the OSError raised.
OsMkdirError(f, q) ==
  IF Exists(f, q) THEN "FileExistsError"
  ELSE IF \E a \in AllPaths : IsPrefix(a, q) /\ a # q /\ IsFile(f, a)
       THEN "NotADirectoryError"
  ELSE IF ~Exists(f, Parent(q)) THEN "FileNotFoundError"
  ELSE ""

\* Path.mkdir(parents=True, exist_ok=True)
RECURSIVE Mkdirs(_, _)
Mkdirs(f, q) ==
  LET e == OsMkdirError(f, q) IN
  IF e = "" THEN [ok |-> TRUE, fs |-> [f EXCEPT ![q] = Dir], err |-> ""]
  ELSE IF e = "FileNotFoundError" /\ q # Root
       THEN LET up == Mkdirs(f, Parent(q)) IN
            IF up.ok THEN [ok |-> TRUE, fs |-> [up.fs EXCEPT ![q] = Dir], err |-> ""]
            ELSE up
  ELSE IF IsDir(f, q) THEN [ok |-> TRUE, fs |-> f, err |-> ""]
  ELSE [ok |-> FALSE, fs |-> f, err |-> e]

\* FileManager._safeRead: Path.read_text under the first encoding that decodes,
\* which is utf-8 for every file of the model (all bytes are ASCII).
SafeRead(bytes) == UniversalNewlines(Decode(bytes))

\* A removal that unlinks p alone and leaves what was under it.
RemoveTree_TopOnly(f, p) == [f EXCEPT ![p] = Absent]

\* shutil.rmtree(p): removing p and everything under it.
RemoveTree(f, p) == [q \in AllPaths |-> IF q # Root /\ IsPrefix(p, q) THEN Absent ELSE f[q]]

\* os.rename(s, t) of a file or a directory tree onto an absent path or a file.
RenameTree(f, s, t) ==
  [q \in AllPaths |->
     IF q # Root /\ IsPrefix(t, q)
     THEN LET from == s \o SubSeq(q, Len(t) + 1, Len(q)) IN
          IF InUniverse(from) THEN f[from] ELSE Absent
     ELSE IF q # Root /\ IsPrefix(s, q) THEN Absent
     ELSE f[q]]

\* fnmatch of one path component against a glob pattern.
Glob(pattern, name) == pattern = "*" \/ pattern = name

\* The children of p in sorted() order.
SortedChildren(f, p) == SelectSeq(NameOrder, LAMBDA n : Exists(f, Append(p, n)))

(***************************************************************************)
(* JSON values a caller passes to writeJsonFile.                           *)
(***************************************************************************)
JsonData == {"emptyobj", "unserializable"}

\* json.dumps(data, indent=2, ensure_ascii=False) of a serializable value.
Dumps(data) == CASE data = "emptyobj" -> <<"{", "}">>

\* json.loads(text): the value, or "JSONDecodeError". Whitespace between the
\* tokens is skipped.
Loads(text) ==
  IF SelectSeq(text, LAMBDA c : c \notin {"LF", "CR"}) = <<"{", "}">>
  THEN "emptyobj" ELSE "JSONDecodeError"

(***************************************************************************)
(* FileManager                                                             *)
(***************************************************************************)
\* readFile without its existence check: the missing file surfaces as the
\* FileNotFoundError that read_text raises inside the try block.
readFile_NoExistsCheck(f, p, fault) ==
  IF ~Resolvable(p) THEN Done(f, Raise("ValueError"))
  ELSE IF fault = "stat" THEN Done(f, Raise("PermissionError"))
  ELSE IF fault = "io" THEN Done(f, Err("PermissionError"))
  ELSE IF ~Exists(f, p) THEN Done(f, Err("FileNotFoundError"))
  ELSE IF IsDir(f, p) THEN Done(f, Err("IsADirectoryError"))
  ELSE LET content == SafeRead(f[p].data) IN
       Done(f, [success |-> TRUE, content |-> content, size |-> Len(Encode(content))])

readFile(f, p, fault) ==
  IF ~Resolvable(p) THEN Done(f, Raise("ValueError"))
  ELSE IF fault = "stat" THEN Done(f, Raise("PermissionError"))
  ELSE IF ~Exists(f, p) THEN Done(f, Err("File does not exist"))
  ELSE IF fault = "io" THEN Done(f, Err("PermissionError"))
  ELSE IF IsDir(f, p) THEN Done(f, Err("IsADirectoryError"))
  ELSE LET content == SafeRead(f[p].data) IN
       Done(f, [success |-> TRUE, content |-> content, size |-> Len(Encode(content))])

\* A slip in the overwrite gate: the flag is read the wrong way round.
OverwriteRefused_Inverted(f, p, overwrite) == Exists(f, p) /\ overwrite

\* targetPath.exists() and not overwrite
OverwriteRefused(f, p, overwrite) == Exists(f, p) /\ ~overwrite

writeFile(f, p, content, overwrite, fault) ==
  IF ~Resolvable(p) THEN Done(f, Raise("ValueError"))
  ELSE IF fault = "stat" THEN Done(f, Raise("PermissionError"))
  ELSE IF OverwriteRefused(f, p, overwrite)
       THEN Done(f, Err("File exists and overwrite=False"))
  ELSE IF fault = "io" THEN Done(f, Err("PermissionError"))
  ELSE LET m == Mkdirs(f, Parent(p)) IN
       IF ~m.ok THEN Done(m.fs, Err(m.err))
       ELSE IF IsDir(m.fs, p) THEN Done(m.fs, Err("IsADirectoryError"))
       \* open(p, 'w') has created or truncated the file when write() encodes.
       ELSE IF ~Encodable(content)
            THEN Done([m.fs EXCEPT ![p] = File(<<>>)], Err("UnicodeEncodeError"))
       ELSE Done([m.fs EXCEPT ![p] = File(Encode(WriteNewlines(content)))],
                 [success |-> TRUE, bytesWritten |-> Len(Encode(content)), path |-> p])

appendFile(f, p, content, fault) ==
  IF ~Resolvable(p) THEN Done(f, Raise("ValueError"))
  ELSE IF fault = "io" THEN Done(f, Err("PermissionError"))
  ELSE LET m == Mkdirs(f, Parent(p)) IN
       IF ~m.ok THEN Done(m.fs, Err(m.err))
       ELSE IF IsDir(m.fs, p) THEN Done(m.fs, Err("IsADirectoryError"))
       ELSE LET old == IF IsFile(m.fs, p) THEN m.fs[p].data ELSE <<>> IN
            \* open(p, 'a') has created the file when write() encodes.
            IF ~Encodable(content)
            THEN Done([m.fs EXCEPT ![p] = File(old)], Err("UnicodeEncodeError"))
            ELSE Done([m.fs EXCEPT ![p] = File(old \o Encode(WriteNewlines(content)))],
                      [success |-> TRUE, bytesAppended |-> Len(Encode(content)), path |-> p])

deleteFile(f, p, fault) ==
  IF ~Resolvable(p) THEN Done(f, Raise("ValueError"))
  ELSE IF fault = "stat" THEN Done(f, Raise("PermissionError"))
  ELSE IF ~Exists(f, p) THEN Done(f, Err("File does not exist"))
  ELSE IF IsDir(f, p) THEN Done(f, Err("Use deleteFolder for directories"))
  ELSE IF fault = "io" THEN Done(f, Err("PermissionError"))
  ELSE Done([f EXCEPT ![p] = Absent], [success |-> TRUE, deleted |-> p])

\* shutil.copy2(src, dst) on the filesystem g; "" when the copy is made.
Copy2Target(g, src, dst) == IF IsDir(g, dst) THEN Append(dst, Basename(src)) ELSE dst

Copy2Error(g, src, dst) ==
  LET real == Copy2Target(g, src, dst) IN
  IF real = src THEN "SameFileError"
  ELSE IF IsDir(g, src) THEN "IsADirectoryError"
  ELSE IF IsDir(g, real) THEN "IsADirectoryError"
  ELSE ""

copyFile(f, src, dst, fault) ==
  IF ~Resolvable(src) \/ ~Resolvable(dst) THEN Done(f, Raise("ValueError"))
  ELSE IF fault = "stat" THEN Done(f, Raise("PermissionError"))
  ELSE IF ~Exists(f, src) THEN Done(f, Err("Source file does not exist"))
  ELSE IF fault = "io" THEN Done(f, Err("PermissionError"))
  ELSE LET m == Mkdirs(f, Parent(dst)) IN
       IF ~m.ok THEN Done(m.fs, Err(m.err))
       ELSE LET e == Copy2Error(m.fs, src, dst) IN
            IF e # "" THEN Done(m.fs, Err(e))
            ELSE Done([m.fs EXCEPT ![Copy2Target(m.fs, src, dst)] = File(m.fs[src].data)],
                      [success |-> TRUE, copiedFrom |-> src, copiedTo |-> dst])

\* shutil.move(src, dst) on the filesystem g.
MoveTarget(g, src, dst) ==
  IF IsDir(g, dst) /\ src # dst THEN Append(dst, Basename(src)) ELSE dst

MoveError(g, src, dst) ==
  LET real == MoveTarget(g, src, dst) IN
  IF IsDir(g, dst) /\ src # dst /\ Exists(g, real) THEN "Destination path already exists"
  ELSE IF real = src THEN ""
  ELSE IF IsDir(g, src) /\ IsPrefix(src, real) THEN "Cannot move a directory into itself"
  ELSE IF IsDir(g, src) /\ IsFile(g, real) THEN "FileExistsError"
  ELSE ""

moveFile(f, src, dst, fault) ==
  IF ~Resolvable(src) \/ ~Resolvable(dst) THEN Done(f, Raise("ValueError"))
  ELSE IF fault = "stat" THEN Done(f, Raise("PermissionError"))
  ELSE IF ~Exists(f, src) THEN Done(f, Err("Source file does not exist"))
  ELSE IF fault = "io" THEN Done(f, Err("PermissionError"))
  ELSE LET m == Mkdirs(f, Parent(dst)) IN
       IF ~m.ok THEN Done(m.fs, Err(m.err))
       ELSE LET e == MoveError(m.fs, src, dst)
                real == MoveTarget(m.fs, src, dst) IN
            IF e # "" THEN Done(m.fs, Err(e))
            ELSE Done(IF real = src THEN m.fs ELSE RenameTree(m.fs, src, real),
                      [success |-> TRUE, movedFrom |-> src, movedTo |-> dst])

\* st_size: the bytes of a file; a directory's own size is the platform's.
StSize(f, p) == IF IsFile(f, p) THEN Len(f[p].data) ELSE 4096

\* Path.suffix: no name of the universe holds a dot.
Suffix(p) == ""

getFileInfo(f, p, fault) ==
  IF ~Resolvable(p) THEN Done(f, Raise("ValueError"))
  ELSE IF fault = "stat" THEN Done(f, Raise("PermissionError"))
  ELSE IF ~Exists(f, p) THEN Done(f, Err("File does not exist"))
  ELSE IF fault = "io" THEN Done(f, Err("PermissionError"))
  ELSE Done(f, [success |-> TRUE, path |-> p, size |-> StSize(f, p),
                modified |-> "mtime", created |-> "ctime",
                isDir |-> IsDir(f, p), isFile |-> IsFile(f, p), extension |-> Suffix(p)])

writeJsonFile(f, p, data, overwrite, fault) ==
  IF data = "unserializable" THEN Done(f, Err("Failed to serialize JSON"))
  ELSE LET w == writeFile(f, p, Dumps(data), overwrite, fault) IN
       \* the try block encloses the call of writeFile
       IF Raised(w.out) THEN Done(w.fs, Err("Failed to serialize JSON")) ELSE w

readJsonFile(f, p, fault) ==
  LET r == readFile(f, p, fault) IN
  IF Raised(r.out) \/ ~r.out.success THEN r
  ELSE LET data == Loads(r.out.content) IN
       IF data = "JSONDecodeError" THEN Done(f, Err("Invalid JSON"))
       ELSE Done(f, [success |-> TRUE, data |-> data])

\* One entry of a listing, as listDirectory builds it.
ItemInfo(f, q) ==
  [name |-> Basename(q),
   type |-> IF IsDir(f, q) THEN "dir" ELSE "file",
   size |-> IF IsFile(f, q) THEN StSize(f, q) ELSE 0,
   path |-> q]

listDirectory(f, p, fault) ==
  IF ~Resolvable(p) THEN Done(f, Raise("ValueError"))
  ELSE IF fault = "stat" THEN Done(f, Raise("PermissionError"))
  ELSE IF ~Exists(f, p) THEN Done(f, Err("Path does not exist"))
  ELSE IF fault = "io" THEN Done(f, Err("PermissionError"))
  ELSE IF ~IsDir(f, p) THEN Done(f, Err("NotADirectoryError"))
  ELSE LET names == SortedChildren(f, p)
           items == [i \in 1..Len(names) |-> ItemInfo(f, Append(p, names[i]))] IN
       Done(f, [success |-> TRUE, items |-> items, count |-> Len(items)])

createFolder(f, p, fault) ==
  IF ~Resolvable(p) THEN Done(f, Raise("ValueError"))
  ELSE IF fault = "io" THEN Done(f, Err("PermissionError"))
  ELSE LET m == Mkdirs(f, p) IN
       IF ~m.ok THEN Done(m.fs, Err(m.err))
       ELSE Done(m.fs, [success |-> TRUE, created |-> p])

\* deleteFolder without its is_dir check: rmtree and rmdir raise
\* NotADirectoryError on a file, and the handler reads that as "not empty".
deleteFolder_NoTypeGuard(f, p, recursive, fault) ==
  IF ~Resolvable(p) THEN Done(f, Raise("ValueError"))
  ELSE IF fault = "stat" THEN Done(f, Raise("PermissionError"))
  ELSE IF ~Exists(f, p) THEN Done(f, Err("Folder does not exist"))
  ELSE IF recursive
       THEN IF fault = "io" THEN Done(f, Err("PermissionError"))
            ELSE IF ~IsDir(f, p) THEN Done(f, Err("NotADirectoryError"))
            ELSE Done(RemoveTree(f, p), [success |-> TRUE, deleted |-> p, recursive |-> TRUE])
  ELSE IF fault = "io" \/ ~IsDir(f, p) \/ Children(f, p) # {}
       THEN Done(f, Err("Directory not empty"))
  ELSE Done([f EXCEPT ![p] = Absent], [success |-> TRUE, deleted |-> p, recursive |-> FALSE])

deleteFolder(f, p, recursive, fault) ==
  IF ~Resolvable(p) THEN Done(f, Raise("ValueError"))
  ELSE IF fault = "stat" THEN Done(f, Raise("PermissionError"))
  ELSE IF ~Exists(f, p) THEN Done(f, Err("Folder does not exist"))
  ELSE IF ~IsDir(f, p) THEN Done(f, Err("Not a directory"))
  ELSE IF recursive
       THEN IF fault = "io" THEN Done(f, Err("PermissionError"))
            ELSE Done(RemoveTree(f, p), [success |-> TRUE, deleted |-> p, recursive |-> TRUE])
  \* rmdir() raises OSError; the handler asks only whether the path still exists
  ELSE IF fault = "io" \/ Children(f, p) # {}
       THEN IF Exists(f, p) THEN Done(f, Err("Directory not empty"))
            ELSE Done(f, Err("OSError"))
  ELSE Done([f EXCEPT ![p] = Absent], [success |-> TRUE, deleted |-> p, recursive |-> FALSE])

\* Path.rglob(pattern): the entries below p whose name matches, in no fixed order.
RGlob(f, p, pattern) == {q \in Descendants(f, p) : Glob(pattern, Basename(q))}

findFiles(f, pattern, p, fault) ==
  IF ~Resolvable(p) THEN Done(f, Raise("ValueError"))
  ELSE IF fault = "stat" THEN Done(f, Raise("PermissionError"))
  ELSE IF ~Exists(f, p) THEN Done(f, Err("Path does not exist"))
  ELSE IF fault = "io" THEN Done(f, Err("PermissionError"))
  ELSE LET matches == {ItemInfo(f, q) : q \in RGlob(f, p, pattern)} IN
       Done(f, [success |-> TRUE, matches |-> matches, count |-> Cardinality(matches)])

searchInFiles(f, searchTerm, filePattern, p, fault) ==
  IF ~Resolvable(p) THEN Done(f, Raise("ValueError"))
  ELSE IF fault = "stat" THEN Done(f, Raise("PermissionError"))
  ELSE IF ~Exists(f, p) THEN Done(f, Err("Path does not exist"))
  ELSE IF fault = "io" THEN Done(f, Err("PermissionError"))
  ELSE LET hits == {q \in RGlob(f, p, filePattern) :
                      /\ IsFile(f, q)
                      /\ Contains(Lower(SafeRead(f[q].data)), Lower(searchTerm))}
           files == {[file |-> q, name |-> Basename(q)] : q \in hits} IN
       Done(f, [success |-> TRUE, files |-> files, count |-> Cardinality(files)])

(***************************************************************************)
(* FileController: the listDirectory tool formats a listing as text.       *)
(***************************************************************************)
\* One line of the table: type, size, modification date, name.
FormatItem(item) == <<item.type, item.size, item.modified, item.name>>

listDirectoryTool(f, p, fault) ==
  LET r == listDirectory(f, p, fault) IN
  IF Raised(r.out) THEN r
  ELSE IF ~r.out.success THEN Done(f, [text |-> <<r.out.error>>])
  ELSE IF r.out.items = <<>> THEN Done(f, [text |-> <<"Directory is empty">>])
  \* item['modified'] of a dictionary without that key
  ELSE IF \E i \in 1..Len(r.out.items) : "modified" \notin DOMAIN r.out.items[i]
       THEN Done(f, Raise("KeyError"))
  ELSE Done(f, [text |-> <<"Type Size Modified Name">>
                         \o [i \in 1..Len(r.out.items) |-> FormatItem(r.out.items[i])]])

(***************************************************************************)
(* The server: one call at a time, each an atomic step on the filesystem.  *)
(***************************************************************************)
\* No call is in flight.
Idle == [op |-> "idle"]

\* The strings callers write.
Contents == {<<"{", "}">>, <<"CR">>, <<"SUR">>}

Patterns == {"*", "a"}

SearchTerms == {<<"{">>}

ListArgs == PathArgs \cup {Root}

FaultChoices == IF osFaults THEN Faults ELSE {"none"}

\* The call `op` with `args` ran on fs and ended as r.
Step(op, args, fault, r) ==
  /\ fs' = r.fs
  /\ last' = [op |-> op, args |-> args, fault |-> fault, before |-> fs, out |-> r.out]
  /\ UNCHANGED <<osFaults, callers, lastWriter>>

\* The entry a copy or a move creates lies in the universe of the model.
CopyFits(f, src, dst) == IsDir(f, dst) => InUniverse(Append(dst, Basename(src)))

MoveFits(f, src, dst) ==
  LET real == IF IsDir(f, dst) /\ src # dst THEN Append(dst, Basename(src)) ELSE dst IN
  \A q \in {src} \cup Descendants(f, src) :
    InUniverse(real \o SubSeq(q, Len(src) + 1, Len(q)))

\* The file an append leaves is no longer than MaxLen bytes.
AppendFits(f, p, content) ==
  (IF IsFile(f, p) THEN Len(f[p].data) ELSE 0) + Len(content) <= MaxLen

ReadFileCall ==
  /\ last = Idle
  /\ \E p \in PathArgs, fault \in FaultChoices :
       Step("readFile", [path |-> p], fault, readFile(fs, p, fault))

WriteFileCall ==
  /\ last = Idle
  /\ \E p \in PathArgs, c \in Contents, ow \in BOOLEAN, fault \in FaultChoices :
       Step("writeFile", [path |-> p, content |-> c, overwrite |-> ow], fault,
            writeFile(fs, p, c, ow, fault))

AppendFileCall ==
  /\ last = Idle
  /\ \E p \in PathArgs, c \in Contents, fault \in FaultChoices \ {"stat"} :
       /\ AppendFits(fs, p, c)
       /\ Step("appendFile", [path |-> p, content |-> c], fault,
               appendFile(fs, p, c, fault))

DeleteFileCall ==
  /\ last = Idle
  /\ \E p \in PathArgs, fault \in FaultChoices :
       Step("deleteFile", [path |-> p], fault, deleteFile(fs, p, fault))

CopyFileCall ==
  /\ last = Idle
  /\ \E src \in PathArgs, dst \in PathArgs, fault \in FaultChoices :
       /\ CopyFits(fs, src, dst)
       /\ Step("copyFile", [src |-> src, dst |-> dst], fault,
               copyFile(fs, src, dst, fault))

MoveFileCall ==
  /\ last = Idle
  /\ \E src \in PathArgs, dst \in PathArgs, fault \in FaultChoices :
       /\ MoveFits(fs, src, dst)
       /\ Step("moveFile", [src |-> src, dst |-> dst], fault,
               moveFile(fs, src, dst, fault))

GetFileInfoCall ==
  /\ last = Idle
  /\ \E p \in PathArgs, fault \in FaultChoices :
       Step("getFileInfo", [path |-> p], fault, getFileInfo(fs, p, fault))

WriteJsonFileCall ==
  /\ last = Idle
  /\ \E p \in PathArgs, d \in JsonData, ow \in BOOLEAN, fault \in FaultChoices :
       Step("writeJsonFile", [path |-> p, data |-> d, overwrite |-> ow], fault,
            writeJsonFile(fs, p, d, ow, fault))

ReadJsonFileCall ==
  /\ last = Idle
  /\ \E p \in PathArgs, fault \in FaultChoices :
       Step("readJsonFile", [path |-> p], fault, readJsonFile(fs, p, fault))

ListDirectoryCall ==
  /\ last = Idle
  /\ \E p \in ListArgs, fault \in FaultChoices :
       Step("listDirectory", [path |-> p], fault, listDirectory(fs, p, fault))

ListDirectoryToolCall ==
  /\ last = Idle
  /\ \E p \in ListArgs, fault \in FaultChoices :
       Step("listDirectoryTool", [path |-> p], fault, listDirectoryTool(fs, p, fault))

CreateFolderCall ==
  /\ last = Idle
  /\ \E p \in PathArgs, fault \in FaultChoices \ {"stat"} :
       Step("createFolder", [path |-> p], fault, createFolder(fs, p, fault))

DeleteFolderCall ==
  /\ last = Idle
  /\ \E p \in PathArgs, rec \in BOOLEAN, fault \in FaultChoices :
       Step("deleteFolder", [path |-> p, recursive |-> rec], fault,
            deleteFolder(fs, p, rec, fault))

FindFilesCall ==
  /\ last = Idle
  /\ \E pat \in Patterns, p \in ListArgs, fault \in FaultChoices :
       Step("findFiles", [pattern |-> pat, path |-> p], fault,
            findFiles(fs, pat, p, fault))

SearchInFilesCall ==
  /\ last = Idle
  /\ \E term \in SearchTerms, pat \in Patterns, p \in ListArgs, fault \in FaultChoices :
       Step("searchInFiles", [searchTerm |-> term, filePattern |-> pat, path |-> p],
            fault, searchInFiles(fs, term, pat, p, fault))

\* The front-end hands the outcome to the client; the server takes the next call.
Respond ==
  /\ last # Idle
  /\ last' = Idle
  /\ UNCHANGED <<fs, osFaults, callers, lastWriter>>

\* The callers of the concurrent writeFile, each with the call it is in.
Callers == {"c1", "c2"}

NoCall == [pc |-> "idle"]

\* The paths two callers write at once: a file and an entry of a directory.
RacePaths == {<<"a">>, <<"a", "b">>}

NoWriter == [p \in RacePaths |-> "none"]

Init ==
  /\ fs = EmptyFs
  /\ last = Idle
  /\ osFaults = FALSE
  /\ callers = [c \in Callers |-> NoCall]
  /\ lastWriter = NoWriter

\* The same server on a host whose system calls can fail.
InitOS ==
  /\ fs = EmptyFs
  /\ last = Idle
  /\ osFaults = TRUE
  /\ callers = [c \in Callers |-> NoCall]
  /\ lastWriter = NoWriter

Next ==
  \/ ReadFileCall
  \/ WriteFileCall
  \/ AppendFileCall
  \/ DeleteFileCall
  \/ CopyFileCall
  \/ MoveFileCall
  \/ GetFileInfoCall
  \/ WriteJsonFileCall
  \/ ReadJsonFileCall
  \/ ListDirectoryCall
  \/ ListDirectoryToolCall
  \/ CreateFolderCall
  \/ DeleteFolderCall
  \/ FindFilesCall
  \/ SearchInFilesCall
  \/ Respond

Spec == Init /\ [][Next]_vars

SpecOS == InitOS /\ [][Next]_vars

\* The model keeps the filesystem a tree.
TypeOK == WellFormed(fs)

(***************************************************************************)
(* writeFile run by two callers at once. The steps of one call are the     *)
(* statements of the method that reach the filesystem: the exists() test,  *)
(* the mkdir of the parent, and the open and the write inside write_text.  *)
(* `existed` remembers what the exists() test saw, `replaced` whether the  *)
(* open truncated a file, and lastWriter who wrote each path last.         *)
(***************************************************************************)
\* A caller enters writeFile(p, c, overwrite); the path is resolved.
WriteFileBegin(c) ==
  /\ callers[c].pc = "idle"
  /\ \E p \in RacePaths, content \in Contents, ow \in BOOLEAN :
       callers' = [callers EXCEPT ![c] =
                     [pc |-> "check", path |-> p, content |-> content, overwrite |-> ow]]
  /\ UNCHANGED <<fs, last, osFaults, lastWriter>>

\* if targetPath.exists() and not overwrite: return error
WriteFileCheck(c) ==
  LET me == callers[c]
      seen == [existed |-> Exists(fs, me.path)] IN
  /\ me.pc = "check"
  /\ callers' = [callers EXCEPT ![c] =
       IF OverwriteRefused(fs, me.path, me.overwrite)
       THEN [me EXCEPT !.pc = "done"] @@ seen
              @@ [replaced |-> FALSE, out |-> Err("File exists and overwrite=False")]
       ELSE [me EXCEPT !.pc = "mkdir"] @@ seen]
  /\ UNCHANGED <<fs, last, osFaults, lastWriter>>

\* targetPath.parent.mkdir(parents=True, exist_ok=True)
WriteFileMkdir(c) ==
  LET me == callers[c]
      m == Mkdirs(fs, Parent(me.path)) IN
  /\ me.pc = "mkdir"
  /\ fs' = m.fs
  /\ callers' = [callers EXCEPT ![c] =
       IF m.ok THEN [me EXCEPT !.pc = "open"]
       ELSE [me EXCEPT !.pc = "done"] @@ [replaced |-> FALSE, out |-> Err(m.err)]]
  /\ UNCHANGED <<last, osFaults, lastWriter>>

\* write_text: open(targetPath, 'w') creates the file or truncates it.
WriteFileOpen(c) ==
  LET me == callers[c] IN
  /\ me.pc = "open"
  /\ IF IsDir(fs, me.path)
     THEN /\ callers' = [callers EXCEPT ![c] =
               [me EXCEPT !.pc = "done"]
                 @@ [replaced |-> FALSE, out |-> Err("IsADirectoryError")]]
          /\ UNCHANGED fs
     ELSE /\ callers' = [callers EXCEPT ![c] =
               [me EXCEPT !.pc = "write"] @@ [replaced |-> IsFile(fs, me.path)]]
          /\ fs' = [fs EXCEPT ![me.path] = File(<<>>)]
  /\ UNCHANGED <<last, osFaults, lastWriter>>

\* write(2) at the descriptor's offset 0: the bytes land over what the file holds.
WriteAtStart(old, bytes) == bytes \o SubSeq(old, Len(bytes) + 1, Len(old))

\* write_text: f.write(content) and close, then the success result.
WriteFileWrite(c) ==
  LET me == callers[c] IN
  /\ me.pc = "write"
  /\ IF ~Encodable(me.content)
     THEN /\ callers' = [callers EXCEPT ![c] =
               [me EXCEPT !.pc = "done"] @@ [out |-> Err("UnicodeEncodeError")]]
          /\ UNCHANGED <<fs, lastWriter>>
     ELSE /\ callers' = [callers EXCEPT ![c] =
               [me EXCEPT !.pc = "done"]
                 @@ [out |-> [success |-> TRUE,
                              bytesWritten |-> Len(Encode(me.content)),
                              path |-> me.path]]]
          /\ fs' = [fs EXCEPT ![me.path] =
                     File(WriteAtStart(fs[me.path].data, Encode(WriteNewlines(me.content))))]
          /\ lastWriter' = [lastWriter EXCEPT ![me.path] = c]
  /\ UNCHANGED <<last, osFaults>>

\* The caller takes the result; it may call again.
WriteFileReturn(c) ==
  /\ callers[c].pc = "done"
  /\ callers' = [callers EXCEPT ![c] = NoCall]
  /\ UNCHANGED <<fs, last, osFaults, lastWriter>>

NextRace ==
  \E c \in Callers :
    \/ WriteFileBegin(c)
    \/ WriteFileCheck(c)
    \/ WriteFileMkdir(c)
    \/ WriteFileOpen(c)
    \/ WriteFileWrite(c)
    \/ WriteFileReturn(c)

SpecRace == Init /\ [][NextRace]_vars

(***************************************************************************)
(* Properties.                                                             *)
(***************************************************************************)
\* A call of FileManager has just ended.
Called(op) == last # Idle /\ last.op = op

FileManagerOps ==
  {"readFile", "writeFile", "appendFile", "deleteFile", "copyFile", "moveFile",
   "getFileInfo", "writeJsonFile", "readJsonFile", "listDirectory", "createFolder",
   "deleteFolder", "findFiles", "searchInFiles"}

\* The result envelope: success with a payload and no error, or an error alone.
IsResult(out) ==
  /\ "success" \in DOMAIN out
  /\ out.success => "error" \notin DOMAIN out /\ DOMAIN out # {"success"}
  /\ ~out.success => DOMAIN out = {"success", "error"}

\* C1: every FileManager operation, for any input and under any operating-system
\* failure, returns a result envelope and never raises.
C1_AlwaysReturnsResult ==
  (last # Idle /\ last.op \in FileManagerOps) => IsResult(last.out)

\* C2: writeFile(p, c2, overwrite=false) on a path that exists returns the
\* "file exists" error and leaves the filesystem, and so what readFile(p)
\* returns, exactly as before the call.
C2_NoOverwriteKeepsFile ==
  (Called("writeFile") /\ ~last.args.overwrite /\ Exists(last.before, last.args.path))
    => /\ last.out = Err("File exists and overwrite=False")
       /\ fs = last.before
       /\ readFile(fs, last.args.path, "none").out
            = readFile(last.before, last.args.path, "none").out

\* C2's case: a second write, of other content, onto a file written before.
C2_Witness ==
  /\ Called("writeFile") /\ ~last.args.overwrite
  /\ IsFile(last.before, last.args.path)
  /\ last.before[last.args.path].data = Encode(<<"{", "}">>)
  /\ last.args.content = <<"CR">>
  /\ Failed(last.out)

C4_WriteReadRoundTrip ==
  (Called("writeFile") /\ Succeeded(last.out))
    => LET r == readFile(fs, last.args.path, "none").out IN
       /\ Succeeded(r)
       /\ r.content = last.args.content
       /\ r.size = last.out.bytesWritten

\* C5: after a successful copyFile(src, dst) the source is unchanged, readFile(dst)
\* returns what readFile(src) returns, and copiedTo is the path holding the copy.
C5_CopyReadsBack ==
  (Called("copyFile") /\ Succeeded(last.out))
    => LET s == readFile(fs, last.args.src, "none").out
           d == readFile(fs, last.args.dst, "none").out
           c == readFile(fs, last.out.copiedTo, "none").out IN
       /\ fs[last.args.src] = last.before[last.args.src]
       /\ Succeeded(s) /\ Succeeded(d) /\ d.content = s.content
       /\ Succeeded(c) /\ c.content = s.content

\* C6: after a successful moveFile(src, dst) of a file to another path the source
\* is gone, readFile(dst) returns the content the source had, and movedTo is the
\* path holding it.
C6_MoveReadsBack ==
  (/\ Called("moveFile") /\ Succeeded(last.out)
   /\ IsFile(last.before, last.args.src) /\ last.args.src # last.args.dst)
    => LET was == readFile(last.before, last.args.src, "none").out
           d == readFile(fs, last.args.dst, "none").out
           m == readFile(fs, last.out.movedTo, "none").out IN
       /\ ~Exists(fs, last.args.src)
       /\ Succeeded(d) /\ d.content = was.content
       /\ Succeeded(m) /\ m.content = was.content

\* C7: deleteFolder(p, recursive=false) on a directory with an entry returns
\* "Directory not empty" and removes nothing; deleteFolder(p, recursive=true) on
\* that directory succeeds, removes p and all under it and nothing else, and
\* getFileInfo(p) then returns the "does not exist" error.
C7_RecursiveRemoves(f, p, g, out) ==
  /\ out = [success |-> TRUE, deleted |-> p, recursive |-> TRUE]
  /\ \A q \in Paths : Exists(g, q) <=> (Exists(f, q) /\ ~IsPrefix(p, q))
  /\ \A q \in Paths : ~IsPrefix(p, q) => g[q] = f[q]
  /\ getFileInfo(g, p, "none").out = Err("File does not exist")

C7_NonEmptyFolder ==
  (/\ Called("deleteFolder")
   /\ IsDir(last.before, last.args.path) /\ Children(last.before, last.args.path) # {})
    => IF last.args.recursive
       THEN C7_RecursiveRemoves(last.before, last.args.path, fs, last.out)
       ELSE /\ last.out = Err("Directory not empty")
            /\ fs = last.before
            /\ LET r == deleteFolder(fs, last.args.path, TRUE, "none") IN
               C7_RecursiveRemoves(fs, last.args.path, r.fs, r.out)

\* C7's case: a non-recursive delete refused on a directory that holds a file
\* and a directory.
C7_Witness ==
  /\ Called("deleteFolder") /\ ~last.args.recursive
  /\ \E q, r \in Children(last.before, last.args.path) :
       IsFile(last.before, q) /\ IsDir(last.before, r)
  /\ Failed(last.out)

\* C8: deleteFile on a directory returns the "use deleteFolder" error and
\* deleteFolder on a regular file returns "Not a directory" (recursive or not),
\* both removing nothing; deleteFile only ever removes one non-directory and
\* deleteFolder only ever removes a directory (and what is under it).
C8_TypeGuard ==
  /\ (Called("deleteFile") /\ IsDir(last.before, last.args.path))
       => last.out = Err("Use deleteFolder for directories") /\ fs = last.before
  /\ (Called("deleteFolder") /\ IsFile(last.before, last.args.path))
       => last.out = Err("Not a directory") /\ fs = last.before
  /\ (Called("deleteFile") /\ fs # last.before)
       => /\ IsFile(last.before, last.args.path)
          /\ \A q \in Paths : q # last.args.path => fs[q] = last.before[q]
  /\ (Called("deleteFolder") /\ fs # last.before)
       => /\ IsDir(last.before, last.args.path)
          /\ \A q \in Paths : ~IsPrefix(last.args.path, q) => fs[q] = last.before[q]

\* C8's case: a recursive deleteFolder aimed at a regular file.
C8_Witness ==
  /\ Called("deleteFolder") /\ last.args.recursive
  /\ IsFile(last.before, last.args.path)
  /\ Failed(last.out)

\* C9: listDirectory of a directory returns one entry per child, ordered by name,
\* each with name, type, size (0 for directories), last-modified timestamp and
\* path, and the listDirectory tool formats every non-empty listing as text.
C9_ListingFormats ==
  /\ (Called("listDirectory") /\ IsDir(last.before, last.args.path))
       => /\ Succeeded(last.out)
          /\ last.out.count = Cardinality(Children(last.before, last.args.path))
          /\ \A i \in 1..Len(last.out.items) :
               {"name", "type", "size", "modified", "path"} \subseteq DOMAIN last.out.items[i]
  /\ (Called("listDirectoryTool") /\ IsDir(last.before, last.args.path))
       => ~Raised(last.out)

\* C10: when writeFile, appendFile, copyFile or moveFile returns an error result
\* the filesystem is the same as before the call.
C10_FailureLeavesNothing ==
  (/\ last # Idle /\ last.op \in {"writeFile", "appendFile", "copyFile", "moveFile"}
   /\ Failed(last.out))
    => fs = last.before

\* C11: deleteFolder(p, recursive=false) returns "Directory not empty" exactly
\* when p is a directory holding at least one entry; a removal of an empty
\* directory that fails for another operating-system reason is reported with
\* the message of that failure.
C11_NotEmptyOnlyWhenNotEmpty ==
  (Called("deleteFolder") /\ ~last.args.recursive /\ ~Raised(last.out))
    => (last.out = Err("Directory not empty")
          <=> (/\ IsDir(last.before, last.args.path)
               /\ Children(last.before, last.args.path) # {}))

\* A caller's call of writeFile has returned.
Returned(c) == callers[c].pc = "done"

\* Both callers have returned from writeFile(p, _, overwrite=false) on one path.
BothReturned(p) ==
  \A c \in Callers :
    Returned(c) /\ callers[c].path = p /\ ~callers[c].overwrite

\* C12: under any interleaving, writeFile(p, c, overwrite=false) never replaces
\* a file that exists at p when its write is performed; of two concurrent calls
\* on one path at most one returns success, and the file then holds the content
\* that call wrote.
C12_AtMostOneWriterWins ==
  /\ \A c \in Callers :
       (callers[c].pc \in {"write", "done"} /\ ~callers[c].overwrite)
         => ~callers[c].replaced
  /\ \A p \in RacePaths :
       BothReturned(p) =>
         /\ ~(\A c \in Callers : Succeeded(callers[c].out))
         /\ \A c \in Callers :
              Succeeded(callers[c].out)
                => fs[p] = File(Encode(WriteNewlines(callers[c].content)))

\* C12, amended: writeFile(p, c, overwrite=false) is refused exactly when p
\* exists at the moment of its exists() test, and a refused call writes nothing;
\* when two concurrent calls on one path have both returned success, the file
\* starts with the content of the call whose write came last.
C12_RefusedByCheckOnly ==
  /\ \A c \in Callers :
       callers[c].pc \in {"mkdir", "open", "write", "done"}
         => /\ (callers[c].existed /\ ~callers[c].overwrite)
                 <=> (Returned(c) /\ callers[c].out = Err("File exists and overwrite=False"))
            /\ (callers[c].existed /\ ~callers[c].overwrite) => ~callers[c].replaced
  /\ \A p \in RacePaths :
       (\A c \in Callers :
          Returned(c) /\ callers[c].path = p /\ Succeeded(callers[c].out))
         => LET bytes == Encode(WriteNewlines(callers[lastWriter[p]].content)) IN
            /\ IsFile(fs, p)
            /\ SubSeq(fs[p].data, 1, Len(bytes)) = bytes

\* C12's case: two calls with overwrite=false on one path both return success,
\* the second open truncates the file the first created, and the file holds
\* the last writer's byte followed by the tail of the other content.
C12_Witness ==
  \E p \in RacePaths :
    /\ BothReturned(p)
    /\ \A c \in Callers : Succeeded(callers[c].out) /\ ~callers[c].existed
    /\ \E c \in Callers : callers[c].replaced
    /\ callers[lastWriter[p]].content = <<"CR">>
    /\ fs[p].data = <<13, 125>>

====
